---- MODULE Spec2Model ----
(***************************************************************************)
(* The portfolio ledger of learn2trade: get_user_portfolio,                *)
(* update_portfolio_db, calculate_portfolio_value and                      *)
(* Portfolio.get_total_value of stock_app3.py over the tables of           *)
(* setup_database.py.  Money is held in integer cents (DECIMAL(15,2)).     *)
(* Every connection is opened with autocommit = True, so each SQL          *)
(* statement is one step that is durable as soon as it has run, and        *)
(* conn.commit() / conn.rollback() change nothing.                         *)
(***************************************************************************)
EXTENDS Integers, Sequences, FiniteSets, TLC

VARIABLES
    portfolios,      \* portfolios table: row i has id i (setup_database.py 47-57)
    holdings,        \* holdings table, no UNIQUE(portfolio_id, symbol) (60-73)
    orders,          \* orders table, in insertion order (76-90)
    pc,              \* where each session is inside the function it called
    args,            \* action, symbol, shares, price of the session's call
    snap,            \* portfolio = get_user_portfolio(user_id) (stock_app3.py 624-630)
    holding_exists,  \* cur.fetchone() of the buy's SELECT on holdings (657-661)
    result,          \* what the call handed back: the message, "None", or "raised"
    wrote,           \* history: statements of the call that changed a table
    ncalls,          \* history: calls made so far
    failed,          \* history: some call did not return success
    op,              \* the function each session called last
    valuation,       \* current_price per symbol and total_value of a valuation
    session_user,    \* st.session_state.user_id: the account of each session
    learning_progress, \* learning_progress table: row i has id i (setup_database.py 107-119)
    existing,        \* cur.fetchone() of mark_lesson_complete's SELECT (122-127)
    random_portfolio, \* st.session_state.random_portfolio of the practice session
    trade_history,   \* st.session_state.trade_history of the practice session
    current_minute,  \* st.session_state.current_minute
    day_complete,    \* st.session_state.day_complete
    auto_advance,    \* st.session_state.auto_advance
    trading_data     \* st.session_state.trading_data: FALSE for None, else TRUE

vars == <<portfolios, holdings, orders, pc, args, snap, holding_exists,
          result, wrote, ncalls, failed, op, valuation, session_user,
          learning_progress, existing, random_portfolio, trade_history,
          current_minute, day_complete, auto_advance, trading_data>>

db == <<portfolios, holdings, orders>>

lessons == <<learning_progress, existing>>

practice == <<random_portfolio, trade_history>>

clock == <<current_minute, day_complete, auto_advance, trading_data>>

\* Everything a trade, a load or a valuation reads or writes.
ledger == <<portfolios, holdings, orders, pc, args, snap, holding_exists,
            result, wrote, ncalls, failed, op, valuation, session_user>>

\* ------------------------------------------------------------------ bounds
\* Calls made in one run, over all sessions.
MaxCalls == 3

\* Browser sessions that may run update_portfolio_db at the same time.
Procs == {1, 2}

\* Registered accounts (users.id), and the one a session is logged in as.
Users == {1, 2}
UserOf(p) == session_user[p]

\* cash DECIMAL(15,2) DEFAULT 100000.00, in cents.
DefaultCash == 10000000

\* Half of the starting balance: two one-share buys at this price spend it all.
HalfCash == DefaultCash \div 2

Symbols == {"AAA", "BBB"}

Request(a, s, n, pr) == [action |-> a, symbol |-> s, shares |-> n, price |-> pr]

\* Calls no trade screen makes but update_portfolio_db accepts: an action that
\* is neither buy nor sell, no shares, a negative price.
OddRequests ==
    {Request("hold", "AAA", 1, HalfCash),
     Request("buy", "AAA", 0, HalfCash),
     Request("sell", "AAA", 1, 0 - DefaultCash)}

\* What the trade screens of two sessions ask for side by side.
Requests == {Request(a, "AAA", n, HalfCash) : a \in {"buy", "sell"}, n \in {1, 2}}

\* What is asked for when the calls run one after the other.
SeqRequests ==
    {Request(a, s, n, pr) : a \in {"buy", "sell"}, s \in Symbols, n \in {1, 2},
                            pr \in {HalfCash, HalfCash + 1}}
        \cup OddRequests

\* ----------------------------------------------------------------- helpers
Abs(x) == IF x < 0 THEN 0 - x ELSE x

\* numeric division stored into a DECIMAL(15,2) column: rounded to the cent,
\* halves away from zero.  b # 0.
RoundDiv(a, b) ==
    LET q == (2 * Abs(a) + Abs(b)) \div (2 * Abs(b))
    IN  IF (a < 0) = (b < 0) THEN q ELSE 0 - q

\* Sum of a sequence of numbers.
RECURSIVE SumSeq(_)
SumSeq(ns) == IF ns = <<>> THEN 0 ELSE Head(ns) + SumSeq(Tail(ns))

\* The snapshot get_user_portfolio returns when the database cannot be used.
DefaultPortfolio ==
    [portfolio_id |-> 0, cash |-> DefaultCash, holdings |-> {}, orders |-> <<>>]

\* symbol in holdings / holdings[symbol] of the snapshot dict.
InSnapshot(p, symbol) == \E h \in snap[p].holdings : h.symbol = symbol
SnapshotHolding(p, symbol) == CHOOSE h \in snap[p].holdings : h.symbol = symbol

\* REFERENCES portfolios(id): the parent row a child row needs.
PortfolioExists(pid) == pid \in DOMAIN portfolios

\* Rows of holdings WHERE portfolio_id = pid AND symbol = symbol.
HoldingRows(pid, symbol) ==
    {i \in DOMAIN holdings :
        holdings[i].portfolio_id = pid /\ holdings[i].symbol = symbol}

\* The holdings dict get_user_portfolio builds: one entry per symbol; when a
\* symbol has several rows the entry is the row the unordered SELECT yields
\* last, which may be any of them.
HoldingDicts(pid) ==
    LET held == {s \in Symbols : HoldingRows(pid, s) # {}}
        picks == {f \in [held -> DOMAIN holdings] :
                     \A s \in held : f[s] \in HoldingRows(pid, s)}
    IN  {{[symbol |-> s,
           shares |-> holdings[f[s]].shares,
           avg_price |-> holdings[f[s]].avg_price,
           total_invested |-> holdings[f[s]].total_invested] : s \in held}
         : f \in picks}

\* LIMIT 50 of the SELECT on orders.
OrderLimit == 50

\* One entry of the snapshot's orders list, from a row of orders:
\* 'profit_loss': float(profit_loss) if profit_loss else None, so a NULL and
\* a stored 0.00 both come out as None ({}).
OrderDict(row) ==
    [symbol |-> row.symbol, action |-> row.action, shares |-> row.shares,
     price |-> row.price, total |-> row.total,
     profit_loss |-> IF row.profit_loss = {0} THEN {} ELSE row.profit_loss]

\* The orders list get_user_portfolio builds: the portfolio's rows ORDER BY
\* timestamp DESC LIMIT 50, newest first.
RecentOrders(pid) ==
    LET mine == SelectSeq(orders, LAMBDA row : row.portfolio_id = pid)
        n == IF Len(mine) < OrderLimit THEN Len(mine) ELSE OrderLimit
    IN  [i \in 1..n |-> OrderDict(mine[Len(mine) + 1 - i])]

\* No valuation has been made: no price looked up, no total.
NoValuation == [quotes |-> <<>>, total |-> 0]

\* -------------------------------------------------------------------- Init
\* A new portfolios row: cash and total_value take their column DEFAULT.
PortfolioRow(user) ==
    [user_id |-> user, cash |-> DefaultCash, total_value |-> DefaultCash]

\* buy_price as the quotient the page computes: total_cost / total_shares.
Quotient(n, d) == [num |-> n, den |-> d]

\* 'cash': 100000.00 of a new practice portfolio, in cents.
PracticeCash == 10000000

\* The practice portfolio a session starts with, and Reset Portfolio restores.
NewRandomPortfolio ==
    [cash |-> PracticeCash, shares |-> 0, buy_price |-> Quotient(0, 1),
     buy_transactions |-> <<>>]

\* No lesson is marked, and the practice session is as the page initialises
\* st.session_state: an untouched portfolio, no trading day generated yet.
NewSession ==
    /\ learning_progress = <<>>
    /\ existing = [p \in Procs |-> {}]
    /\ random_portfolio = NewRandomPortfolio
    /\ trade_history = <<>>
    /\ current_minute = 0
    /\ day_complete = FALSE
    /\ auto_advance = FALSE
    /\ trading_data = FALSE

\* Tables as register_user leaves them: one portfolio row per account, or, when
\* its second INSERT failed, an account that has no portfolio row yet.
Init ==
    /\ portfolios \in {<<PortfolioRow(2), PortfolioRow(1)>>, <<PortfolioRow(2)>>}
    /\ holdings = <<>>
    /\ orders = <<>>
    /\ pc = [p \in Procs |-> "idle"]
    /\ args = [p \in Procs |-> Request("hold", "AAA", 1, HalfCash)]
    /\ snap = [p \in Procs |-> DefaultPortfolio]
    /\ holding_exists = [p \in Procs |-> FALSE]
    /\ result = [p \in Procs |-> "none"]
    /\ wrote = [p \in Procs |-> 0]
    /\ ncalls = 0
    /\ failed = FALSE
    /\ op = [p \in Procs |-> "update_portfolio_db"]
    /\ valuation = [p \in Procs |-> NoValuation]
    /\ session_user = [p \in Procs |-> 1]
    /\ NewSession

\* ------------------------------------------------------ update_portfolio_db
\* A session calls update_portfolio_db(user_id, symbol, action, shares, price).
Call(p, reqs) ==
    /\ pc[p] \in {"idle", "done"}
    /\ ncalls < MaxCalls
    /\ \E r \in reqs : args' = [args EXCEPT ![p] = r]
    /\ pc' = [pc EXCEPT ![p] = "load_connect"]
    /\ snap' = [snap EXCEPT ![p] = DefaultPortfolio]
    /\ holding_exists' = [holding_exists EXCEPT ![p] = FALSE]
    /\ result' = [result EXCEPT ![p] = "none"]
    /\ wrote' = [wrote EXCEPT ![p] = 0]
    /\ ncalls' = ncalls + 1
    /\ op' = [op EXCEPT ![p] = "update_portfolio_db"]
    /\ valuation' = [valuation EXCEPT ![p] = NoValuation]
    /\ UNCHANGED <<db, failed, session_user, lessons, practice, clock>>

\* The call returns: what the caller receives.
Return(p, r) ==
    /\ pc' = [pc EXCEPT ![p] = "done"]
    /\ result' = [result EXCEPT ![p] = r]
    /\ failed' = (failed \/ r \notin {"Buy order executed", "Sell order executed"})

\* get_user_portfolio gives up and hands back the default snapshot.
LoadDefault(p) ==
    /\ snap' = [snap EXCEPT ![p] = DefaultPortfolio]
    /\ pc' = [pc EXCEPT ![p] = "connect"]

\* get_user_portfolio: conn = get_db_connection().
LoadConnect(p) ==
    /\ pc[p] = "load_connect"
    /\ \/ LoadDefault(p)
       \/ /\ pc' = [pc EXCEPT ![p] = "load_portfolio"]
          /\ UNCHANGED snap
    /\ UNCHANGED <<db, args, holding_exists, result, wrote, ncalls, session_user, lessons, practice, clock, failed, op, valuation>>

\* get_user_portfolio going on to its INSERT without looking for a row.
LoadSelectPortfolioNoCheck(p) ==
    /\ pc[p] = "load_portfolio"
    /\ pc' = [pc EXCEPT ![p] = "load_insert"]
    /\ UNCHANGED <<db, args, snap, holding_exists, result, wrote, ncalls, session_user, lessons, practice, clock, failed,
                   op, valuation>>

\* get_user_portfolio: SELECT id, cash FROM portfolios WHERE user_id = ...
LoadSelectPortfolio(p) ==
    /\ pc[p] = "load_portfolio"
    /\ \/ LoadDefault(p)
       \/ \E i \in DOMAIN portfolios :
            /\ portfolios[i].user_id = UserOf(p)
            /\ snap' = [snap EXCEPT ![p] =
                  [portfolio_id |-> i, cash |-> portfolios[i].cash,
                   holdings |-> {}, orders |-> <<>>]]
            /\ pc' = [pc EXCEPT ![p] = "load_holdings"]
       \/ /\ \A i \in DOMAIN portfolios : portfolios[i].user_id # UserOf(p)
          /\ pc' = [pc EXCEPT ![p] = "load_insert"]
          /\ UNCHANGED snap
    /\ UNCHANGED <<db, args, holding_exists, result, wrote, ncalls, session_user, lessons, practice, clock, failed, op, valuation>>

\* get_user_portfolio: SELECT ... FROM holdings WHERE portfolio_id = ...
LoadSelectHoldings(p) ==
    /\ pc[p] = "load_holdings"
    /\ \/ LoadDefault(p)
       \/ \E d \in HoldingDicts(snap[p].portfolio_id) :
            /\ snap' = [snap EXCEPT ![p].holdings = d]
            /\ pc' = [pc EXCEPT ![p] = "load_orders"]
    /\ UNCHANGED <<db, args, holding_exists, result, wrote, ncalls, session_user, lessons, practice, clock, failed, op, valuation>>

\* get_user_portfolio: SELECT ... FROM orders ... LIMIT 50, then return.
LoadSelectOrders(p) ==
    /\ pc[p] = "load_orders"
    /\ \/ LoadDefault(p)
       \/ /\ snap' = [snap EXCEPT ![p].orders = RecentOrders(snap[p].portfolio_id)]
          /\ pc' = [pc EXCEPT ![p] = "connect"]
    /\ UNCHANGED <<db, args, holding_exists, result, wrote, ncalls, session_user, lessons, practice, clock, failed, op, valuation>>

\* get_user_portfolio: INSERT INTO portfolios (user_id) ... RETURNING id.
LoadInsertPortfolio(p) ==
    /\ pc[p] = "load_insert"
    /\ \/ /\ LoadDefault(p)
          /\ UNCHANGED portfolios
       \/ /\ portfolios' = Append(portfolios, PortfolioRow(UserOf(p)))
          /\ snap' = [snap EXCEPT ![p] =
                [portfolio_id |-> Len(portfolios) + 1, cash |-> DefaultCash,
                 holdings |-> {}, orders |-> <<>>]]
          /\ pc' = [pc EXCEPT ![p] = "connect"]
    /\ UNCHANGED <<holdings, orders, args, holding_exists, result, wrote, ncalls, session_user, lessons, practice, clock, failed, op, valuation>>

\* except Exception: conn.rollback(); cur.close(); conn.close(); return False,
\* "Transaction failed: ...".  With autocommit the rollback undoes nothing; on a
\* broken connection it raises, and the exception leaves the function.
Except(p) ==
    \E r \in {"Transaction failed", "raised"} : Return(p, r)

\* total_cost = shares * price (buy), total_value = shares * price (sell).
Total(p) == args[p].shares * args[p].price

\* The check a buy makes before it writes: total_cost > cash.
InsufficientFunds(p) == Total(p) > snap[p].cash

\* The check a sell makes before it writes: holding['shares'] < shares.
InsufficientShares(p) == SnapshotHolding(p, args[p].symbol).shares < args[p].shares

\* conn = get_db_connection(); cur = conn.cursor(); then the branch on action
\* and its checks against the snapshot.  Nothing here touches the tables.
Dispatch(p) ==
    /\ pc[p] = "connect"
    /\ op[p] = "update_portfolio_db"
    /\ \/ Return(p, "Database connection failed")
       \/ Return(p, "raised")
       \/ /\ args[p].action = "buy"
          /\ IF InsufficientFunds(p)
             THEN Return(p, "Insufficient funds")
             ELSE /\ pc' = [pc EXCEPT ![p] = "buy_cash"]
                  /\ UNCHANGED <<result, failed>>
       \/ /\ args[p].action = "sell"
          /\ IF ~InSnapshot(p, args[p].symbol)
             THEN Return(p, "No shares to sell")
             ELSE IF InsufficientShares(p)
             THEN Return(p, "Insufficient shares")
             ELSE /\ pc' = [pc EXCEPT ![p] = "sell_cash"]
                  /\ UNCHANGED <<result, failed>>
       \/ /\ args[p].action \notin {"buy", "sell"}
          /\ Return(p, "None")
    /\ UNCHANGED <<db, args, snap, holding_exists, wrote, ncalls, session_user, lessons, practice, clock, op, valuation>>

\* new_cash of a buy with the sign of the cost turned round.
BuyNewCashAddsCost(p) == snap[p].cash + args[p].shares * args[p].price

\* new_cash of a buy and of a sell, from the snapshot's cash.
BuyNewCash(p) == snap[p].cash - Total(p)
SellNewCash(p) == snap[p].cash + Total(p)

\* The cash UPDATE without its WHERE clause.
SetCashEveryRow(pid, new_cash) ==
    [i \in DOMAIN portfolios |-> [portfolios[i] EXCEPT !.cash = new_cash]]

\* UPDATE portfolios SET cash = new_cash WHERE id = portfolio_id.
SetCash(pid, new_cash) ==
    [i \in DOMAIN portfolios |->
        IF i = pid THEN [portfolios[i] EXCEPT !.cash = new_cash] ELSE portfolios[i]]

\* The call's count of statements that changed a table.
Wrote(p, changed) == wrote' = [wrote EXCEPT ![p] = wrote[p] + IF changed THEN 1 ELSE 0]

\* buy: UPDATE portfolios SET cash = ...
BuyUpdateCash(p) ==
    /\ pc[p] = "buy_cash"
    /\ \/ /\ Except(p)
          /\ UNCHANGED <<portfolios, wrote>>
       \/ /\ portfolios' = SetCash(snap[p].portfolio_id, BuyNewCash(p))
          /\ Wrote(p, portfolios' # portfolios)
          /\ pc' = [pc EXCEPT ![p] = "buy_select"]
          /\ UNCHANGED <<result, failed>>
    /\ UNCHANGED <<holdings, orders, args, snap, holding_exists, ncalls, session_user, lessons, practice, clock, op, valuation>>

\* buy: SELECT id FROM holdings WHERE portfolio_id = ... AND symbol = ...
BuySelectHolding(p) ==
    /\ pc[p] = "buy_select"
    /\ \/ /\ Except(p)
          /\ UNCHANGED holding_exists
       \/ /\ holding_exists' = [holding_exists EXCEPT ![p] =
                 HoldingRows(snap[p].portfolio_id, args[p].symbol) # {}]
          /\ pc' = [pc EXCEPT ![p] = "buy_holding"]
          /\ UNCHANGED <<result, failed>>
    /\ UNCHANGED <<db, args, snap, wrote, ncalls, session_user, lessons, practice, clock, op, valuation>>

\* The buy's UPDATE with avg_price divided by the shares held before the buy.
BoughtMoreOldShares(row, n, cost) ==
    [row EXCEPT !.shares = row.shares + n,
                !.total_invested = row.total_invested + cost,
                !.avg_price = RoundDiv(row.total_invested + cost, row.shares)]

\* The buy's UPDATE with avg_price computed from the columns as already
\* raised by the same statement.
BoughtMoreFromNew(row, n, cost) ==
    [row EXCEPT !.shares = row.shares + n,
                !.total_invested = row.total_invested + cost,
                !.avg_price = RoundDiv(row.total_invested + cost + cost,
                                       row.shares + n + n)]

\* One holdings row after UPDATE holdings SET shares = shares + n,
\* total_invested = total_invested + cost, avg_price = (total_invested + cost)
\* / (shares + n): every right-hand side reads the row as it was.
BoughtMore(row, n, cost) ==
    [row EXCEPT !.shares = row.shares + n,
                !.total_invested = row.total_invested + cost,
                !.avg_price = RoundDiv(row.total_invested + cost, row.shares + n)]

\* The INSERT with total_cost in the avg_price column.
NewHoldingAvgIsCost(pid, symbol, n, price, cost) ==
    [portfolio_id |-> pid, symbol |-> symbol, shares |-> n,
     avg_price |-> cost, total_invested |-> cost]

\* The row INSERT INTO holdings ... VALUES (..., shares, price, total_cost) adds.
NewHolding(pid, symbol, n, price, cost) ==
    [portfolio_id |-> pid, symbol |-> symbol, shares |-> n,
     avg_price |-> price, total_invested |-> cost]

\* buy: the UPDATE of the existing holding rows, or the INSERT of a new one.
BuyWriteHolding(p) ==
    LET pid == snap[p].portfolio_id
        rows == HoldingRows(pid, args[p].symbol)
        ok == IF holding_exists[p]
              THEN \A i \in rows : holdings[i].shares + args[p].shares # 0
              ELSE PortfolioExists(pid)
    IN
    /\ pc[p] = "buy_holding"
    /\ \/ /\ Except(p)
          /\ UNCHANGED <<holdings, wrote>>
       \/ /\ ok
          /\ holding_exists[p]
          /\ holdings' = [i \in DOMAIN holdings |->
                IF i \in rows
                THEN BoughtMore(holdings[i], args[p].shares, Total(p))
                ELSE holdings[i]]
          /\ Wrote(p, holdings' # holdings)
          /\ pc' = [pc EXCEPT ![p] = "buy_order"]
          /\ UNCHANGED <<result, failed>>
       \/ /\ ok
          /\ ~holding_exists[p]
          /\ holdings' = Append(holdings,
                NewHolding(pid, args[p].symbol, args[p].shares, args[p].price, Total(p)))
          /\ Wrote(p, TRUE)
          /\ pc' = [pc EXCEPT ![p] = "buy_order"]
          /\ UNCHANGED <<result, failed>>
    /\ UNCHANGED <<portfolios, orders, args, snap, holding_exists, ncalls, session_user, lessons, practice, clock, op, valuation>>

\* The orders row with the price per share in the total column.
NewOrderTotalIsPrice(pid, symbol, action, n, price, total, profit_loss) ==
    [portfolio_id |-> pid, symbol |-> symbol, action |-> action, shares |-> n,
     price |-> price, total |-> price, profit_loss |-> profit_loss]

\* The row INSERT INTO orders adds; profit_loss is {} for NULL.
NewOrder(pid, symbol, action, n, price, total, profit_loss) ==
    [portfolio_id |-> pid, symbol |-> symbol, action |-> action, shares |-> n,
     price |-> price, total |-> total, profit_loss |-> profit_loss]

\* buy: INSERT INTO orders; conn.commit(); return True, "Buy order executed".
BuyInsertOrder(p) ==
    /\ pc[p] = "buy_order"
    /\ \/ /\ Except(p)
          /\ UNCHANGED <<orders, wrote>>
       \/ /\ PortfolioExists(snap[p].portfolio_id)
          /\ orders' = Append(orders,
                NewOrder(snap[p].portfolio_id, args[p].symbol, "buy",
                         args[p].shares, args[p].price, Total(p), {}))
          /\ Wrote(p, TRUE)
          /\ Return(p, "Buy order executed")
    /\ UNCHANGED <<portfolios, holdings, args, snap, holding_exists, ncalls, session_user, lessons, practice, clock, op, valuation>>

\* profit_loss as the proceeds less all the money invested in the holding.
ProfitLossOnTotal(p) ==
    args[p].price * args[p].shares
        - SnapshotHolding(p, args[p].symbol).total_invested

\* sell: profit_loss = (price - avg_price) * shares.
ProfitLoss(p) ==
    (args[p].price - SnapshotHolding(p, args[p].symbol).avg_price) * args[p].shares

\* sell: remaining_shares = holding['shares'] - shares.
RemainingShares(p) == SnapshotHolding(p, args[p].symbol).shares - args[p].shares

\* sell: UPDATE portfolios SET cash = ...
SellUpdateCash(p) ==
    /\ pc[p] = "sell_cash"
    /\ \/ /\ Except(p)
          /\ UNCHANGED <<portfolios, wrote>>
       \/ /\ portfolios' = SetCash(snap[p].portfolio_id, SellNewCash(p))
          /\ Wrote(p, portfolios' # portfolios)
          /\ pc' = [pc EXCEPT ![p] = "sell_holding"]
          /\ UNCHANGED <<result, failed>>
    /\ UNCHANGED <<holdings, orders, args, snap, holding_exists, ncalls, session_user, lessons, practice, clock, op, valuation>>

\* The sell's UPDATE also setting avg_price, to the money left invested over
\* the shares held before the sale.
SoldSomeMovesAvg(row, remaining, avg_price) ==
    [row EXCEPT !.shares = remaining,
                !.total_invested = remaining * avg_price,
                !.avg_price = RoundDiv(remaining * avg_price, row.shares)]

\* One holdings row after UPDATE holdings SET shares = remaining_shares,
\* total_invested = remaining_shares * avg_price.
SoldSome(row, remaining, avg_price) ==
    [row EXCEPT !.shares = remaining, !.total_invested = remaining * avg_price]

\* sell: DELETE FROM holdings when nothing remains, else the UPDATE.
SellWriteHolding(p) ==
    LET rows == HoldingRows(snap[p].portfolio_id, args[p].symbol)
    IN
    /\ pc[p] = "sell_holding"
    /\ \/ /\ Except(p)
          /\ UNCHANGED <<holdings, wrote>>
       \/ /\ RemainingShares(p) = 0
          /\ holdings' = SelectSeq(holdings,
                LAMBDA row : ~(row.portfolio_id = snap[p].portfolio_id
                               /\ row.symbol = args[p].symbol))
          /\ Wrote(p, holdings' # holdings)
          /\ pc' = [pc EXCEPT ![p] = "sell_order"]
          /\ UNCHANGED <<result, failed>>
       \/ /\ RemainingShares(p) # 0
          /\ holdings' = [i \in DOMAIN holdings |->
                IF i \in rows
                THEN SoldSome(holdings[i], RemainingShares(p),
                              SnapshotHolding(p, args[p].symbol).avg_price)
                ELSE holdings[i]]
          /\ Wrote(p, holdings' # holdings)
          /\ pc' = [pc EXCEPT ![p] = "sell_order"]
          /\ UNCHANGED <<result, failed>>
    /\ UNCHANGED <<portfolios, orders, args, snap, holding_exists, ncalls, session_user, lessons, practice, clock, op, valuation>>

\* sell: INSERT INTO orders; conn.commit(); return True, "Sell order executed".
SellInsertOrder(p) ==
    /\ pc[p] = "sell_order"
    /\ \/ /\ Except(p)
          /\ UNCHANGED <<orders, wrote>>
       \/ /\ PortfolioExists(snap[p].portfolio_id)
          /\ orders' = Append(orders,
                NewOrder(snap[p].portfolio_id, args[p].symbol, "sell",
                         args[p].shares, args[p].price, Total(p), {ProfitLoss(p)}))
          /\ Wrote(p, TRUE)
          /\ Return(p, "Sell order executed")
    /\ UNCHANGED <<portfolios, holdings, args, snap, holding_exists, ncalls, session_user, lessons, practice, clock, op, valuation>>

\* ------------------------------------------------------- get_user_portfolio
\* A session calls get_user_portfolio(user_id) for itself, as the portfolio
\* and trading pages do.
GetUserPortfolio(p) ==
    /\ pc[p] \in {"idle", "done"}
    /\ ncalls < MaxCalls
    /\ op' = [op EXCEPT ![p] = "get_user_portfolio"]
    /\ pc' = [pc EXCEPT ![p] = "load_connect"]
    /\ snap' = [snap EXCEPT ![p] = DefaultPortfolio]
    /\ result' = [result EXCEPT ![p] = "none"]
    /\ wrote' = [wrote EXCEPT ![p] = 0]
    /\ valuation' = [valuation EXCEPT ![p] = NoValuation]
    /\ ncalls' = ncalls + 1
    /\ UNCHANGED <<db, args, holding_exists, failed, session_user, lessons, practice, clock>>

\* The page receives the dict get_user_portfolio returned: on every path of
\* the function that is a portfolio, the one read or the default one.
GetUserPortfolioReturn(p) ==
    /\ pc[p] = "connect"
    /\ op[p] = "get_user_portfolio"
    /\ pc' = [pc EXCEPT ![p] = "done"]
    /\ result' = [result EXCEPT ![p] = "portfolio"]
    /\ UNCHANGED <<db, args, snap, holding_exists, wrote, ncalls, session_user, lessons, practice, clock, failed, op, valuation>>

\* ------------------------------------------------ calculate_portfolio_value
\* Prices the quote service may report, in cents.
MarketPrices == {HalfCash + 1, DefaultCash}

\* What one lookup yields: {} when it raises or has no last_price, else {price}.
Quotes == {{}} \cup {{x} : x \in MarketPrices}

\* current_price of one holding with nothing added for a symbol without quote.
CurrentPriceNoFallback(h, quotes) ==
    IF quotes[h.symbol] = {} THEN 0 ELSE CHOOSE x \in quotes[h.symbol] : TRUE

\* current_price of one holding: the quote, or holding['avg_price'] without one.
CurrentPrice(h, quotes) ==
    IF quotes[h.symbol] = {} THEN h.avg_price ELSE CHOOSE x \in quotes[h.symbol] : TRUE

\* The sum of holding['shares'] * current_price over the snapshot's holdings.
RECURSIVE HoldingsValue(_, _)
HoldingsValue(hs, quotes) ==
    IF hs = {} THEN 0
    ELSE LET h == CHOOSE x \in hs : TRUE
         IN  h.shares * CurrentPrice(h, quotes) + HoldingsValue(hs \ {h}, quotes)

\* A session calls calculate_portfolio_value(user_id).
CalculatePortfolioValue(p) ==
    /\ pc[p] \in {"idle", "done"}
    /\ ncalls < MaxCalls
    /\ op' = [op EXCEPT ![p] = "calculate_portfolio_value"]
    /\ pc' = [pc EXCEPT ![p] = "load_connect"]
    /\ snap' = [snap EXCEPT ![p] = DefaultPortfolio]
    /\ result' = [result EXCEPT ![p] = "none"]
    /\ wrote' = [wrote EXCEPT ![p] = 0]
    /\ valuation' = [valuation EXCEPT ![p] = NoValuation]
    /\ ncalls' = ncalls + 1
    /\ UNCHANGED <<db, args, holding_exists, failed, session_user, lessons, practice, clock>>

\* A session calls get_total_value() on a Portfolio object that has loaded
\* nothing yet, so it loads the portfolio first.
GetTotalValue(p) ==
    /\ pc[p] \in {"idle", "done"}
    /\ ncalls < MaxCalls
    /\ op' = [op EXCEPT ![p] = "get_total_value"]
    /\ pc' = [pc EXCEPT ![p] = "load_connect"]
    /\ snap' = [snap EXCEPT ![p] = DefaultPortfolio]
    /\ result' = [result EXCEPT ![p] = "none"]
    /\ wrote' = [wrote EXCEPT ![p] = 0]
    /\ valuation' = [valuation EXCEPT ![p] = NoValuation]
    /\ ncalls' = ncalls + 1
    /\ UNCHANGED <<db, args, holding_exists, failed, session_user, lessons, practice, clock>>

\* The loop over portfolio['holdings']: one lookup per held symbol, each with
\* its own try/except, added up onto the cash.  get_total_value returns the
\* sum here; calculate_portfolio_value goes on to store it.
LookupPrices(p) ==
    LET held == {h.symbol : h \in snap[p].holdings}
    IN
    /\ pc[p] = "connect"
    /\ op[p] \in {"calculate_portfolio_value", "get_total_value"}
    /\ \E quotes \in [held -> Quotes] :
         valuation' = [valuation EXCEPT ![p] =
            [quotes |-> quotes,
             total |-> snap[p].cash + HoldingsValue(snap[p].holdings, quotes)]]
    /\ IF op[p] = "calculate_portfolio_value"
       THEN /\ pc' = [pc EXCEPT ![p] = "value_update"]
            /\ UNCHANGED result
       ELSE /\ pc' = [pc EXCEPT ![p] = "done"]
            /\ result' = [result EXCEPT ![p] = "total_value"]
    /\ UNCHANGED <<db, args, snap, holding_exists, wrote, ncalls, session_user, lessons, practice, clock, failed, op>>

\* UPDATE portfolios SET total_value = ... WHERE user_id = ...
SetTotalValue(user, total_value) ==
    [i \in DOMAIN portfolios |->
        IF portfolios[i].user_id = user
        THEN [portfolios[i] EXCEPT !.total_value = total_value]
        ELSE portfolios[i]]

\* calculate_portfolio_value: the UPDATE of total_value when a connection is
\* there, its exception passed over; then return total_value.
UpdateTotalValue(p) ==
    /\ pc[p] = "value_update"
    /\ \/ UNCHANGED portfolios
       \/ portfolios' = SetTotalValue(UserOf(p), valuation[p].total)
    /\ pc' = [pc EXCEPT ![p] = "done"]
    /\ result' = [result EXCEPT ![p] = "total_value"]
    /\ UNCHANGED <<holdings, orders, args, snap, holding_exists, wrote, ncalls, session_user, lessons, practice, clock,
                   failed, op, valuation>>

\* ------------------------------------------------------------ specification
Step(p, reqs) ==
    \/ Call(p, reqs)
    \/ LoadConnect(p)
    \/ LoadSelectPortfolio(p)
    \/ LoadSelectHoldings(p)
    \/ LoadSelectOrders(p)
    \/ LoadInsertPortfolio(p)
    \/ Dispatch(p)
    \/ BuyUpdateCash(p)
    \/ BuySelectHolding(p)
    \/ BuyWriteHolding(p)
    \/ BuyInsertOrder(p)
    \/ SellUpdateCash(p)
    \/ SellWriteHolding(p)
    \/ SellInsertOrder(p)

\* Sessions run update_portfolio_db side by side, statement by statement.
Next == \E p \in Procs : Step(p, Requests)

Spec == Init /\ [][Next]_vars

\* One session: its calls of update_portfolio_db run one after the other.
NextSeq == Step(1, SeqRequests)

SpecSeq == Init /\ [][NextSeq]_vars

\* Trades at prices a cent apart, 1.00 and 1.01, where the rounding of
\* avg_price to the cent shows.
CentRequests ==
    {Request(a, "AAA", n, pr) : a \in {"buy", "sell"}, n \in {1, 2}, pr \in {100, 101}}

\* One session trading at those prices, its calls one after the other.
NextCents == Step(1, CentRequests)

SpecCents == Init /\ [][NextCents]_vars

\* What the pages ask for when they trade between loads and valuations.
AppRequests ==
    {Request("buy", s, 1, HalfCash) : s \in Symbols}
        \cup {Request("sell", "AAA", 1, pr) : pr \in {HalfCash, HalfCash + 1}}

\* No other session is inside a call.
Alone(p) == \A q \in Procs \ {p} : pc[q] \in {"idle", "done"}

\* Two sessions of the account load, value and trade, one call at a time.
StepApp(p) ==
    \/ Alone(p) /\ Call(p, AppRequests)
    \/ Alone(p) /\ GetUserPortfolio(p)
    \/ Alone(p) /\ CalculatePortfolioValue(p)
    \/ Alone(p) /\ GetTotalValue(p)
    \/ LoadConnect(p)
    \/ LoadSelectPortfolio(p)
    \/ LoadSelectHoldings(p)
    \/ LoadSelectOrders(p)
    \/ LoadInsertPortfolio(p)
    \/ GetUserPortfolioReturn(p)
    \/ LookupPrices(p)
    \/ UpdateTotalValue(p)
    \/ Dispatch(p)
    \/ BuyUpdateCash(p)
    \/ BuySelectHolding(p)
    \/ BuyWriteHolding(p)
    \/ BuyInsertOrder(p)
    \/ SellUpdateCash(p)
    \/ SellWriteHolding(p)
    \/ SellInsertOrder(p)

NextApp == \E p \in Procs : StepApp(p)

SpecApp == Init /\ [][NextApp]_vars

\* Two accounts, each logged in on one session.
InitUsers ==
    /\ portfolios \in {<<PortfolioRow(2), PortfolioRow(1)>>, <<PortfolioRow(2)>>}
    /\ holdings = <<>>
    /\ orders = <<>>
    /\ pc = [p \in Procs |-> "idle"]
    /\ args = [p \in Procs |-> Request("hold", "AAA", 1, HalfCash)]
    /\ snap = [p \in Procs |-> DefaultPortfolio]
    /\ holding_exists = [p \in Procs |-> FALSE]
    /\ result = [p \in Procs |-> "none"]
    /\ wrote = [p \in Procs |-> 0]
    /\ ncalls = 0
    /\ failed = FALSE
    /\ op = [p \in Procs |-> "update_portfolio_db"]
    /\ valuation = [p \in Procs |-> NoValuation]
    /\ session_user = [p \in Procs |-> p]
    /\ NewSession

\* What the two accounts trade.
UserRequests ==
    {Request("buy", "AAA", 1, HalfCash), Request("sell", "AAA", 1, HalfCash + 1)}

\* The sessions of the two accounts trade, load and value side by side,
\* statement by statement.
StepUsers(p) ==
    \/ Call(p, UserRequests)
    \/ GetUserPortfolio(p)
    \/ CalculatePortfolioValue(p)
    \/ LoadConnect(p)
    \/ LoadSelectPortfolio(p)
    \/ LoadSelectHoldings(p)
    \/ LoadSelectOrders(p)
    \/ LoadInsertPortfolio(p)
    \/ GetUserPortfolioReturn(p)
    \/ LookupPrices(p)
    \/ UpdateTotalValue(p)
    \/ Dispatch(p)
    \/ BuyUpdateCash(p)
    \/ BuySelectHolding(p)
    \/ BuyWriteHolding(p)
    \/ BuyInsertOrder(p)
    \/ SellUpdateCash(p)
    \/ SellWriteHolding(p)
    \/ SellInsertOrder(p)

NextUsers == \E p \in Procs : StepUsers(p)

SpecUsers == InitUsers /\ [][NextUsers]_vars

\* ----------------------------------------------------- mark_lesson_complete
\* The lessons a session may mark: (course_category, lesson_name).
Lessons == {<<"Basics", "What is Stock Market?">>, <<"Basics", "Types of Stocks">>}

\* A row of learning_progress as the INSERT of mark_lesson_complete writes it.
ProgressRow(user, lesson) ==
    [user_id |-> user, course_category |-> lesson[1], lesson_name |-> lesson[2],
     completed |-> TRUE]

\* The rows WHERE user_id = %s AND course_category = %s AND lesson_name = %s.
ProgressRows(user, lesson) ==
    {i \in DOMAIN learning_progress :
        /\ learning_progress[i].user_id = user
        /\ learning_progress[i].course_category = lesson[1]
        /\ learning_progress[i].lesson_name = lesson[2]}

\* An INSERT that the table accepts whatever rows it holds.
AnyRowAccepted(user, lesson) == FALSE

\* UNIQUE(user_id, course_category, lesson_name): the INSERT of a second row
\* for the lesson raises.
UniqueViolation(user, lesson) == ProgressRows(user, lesson) # {}

\* A session presses Mark as Complete: current_user.mark_lesson_complete(
\* selected_course, selected_lesson).
MarkLessonComplete(p) ==
    /\ pc[p] \in {"idle", "done"}
    /\ ncalls < MaxCalls
    /\ \E l \in Lessons : args' = [args EXCEPT ![p] = l]
    /\ op' = [op EXCEPT ![p] = "mark_lesson_complete"]
    /\ pc' = [pc EXCEPT ![p] = "mark_connect"]
    /\ result' = [result EXCEPT ![p] = "none"]
    /\ wrote' = [wrote EXCEPT ![p] = 0]
    /\ existing' = [existing EXCEPT ![p] = {}]
    /\ ncalls' = ncalls + 1
    /\ UNCHANGED <<db, snap, holding_exists, failed, valuation, session_user,
                   learning_progress, practice, clock>>

\* mark_lesson_complete returns r: "True" and "False" stand for the booleans.
MarkReturn(p, r) ==
    /\ pc' = [pc EXCEPT ![p] = "done"]
    /\ result' = [result EXCEPT ![p] = r]

\* conn = self.db.get_connection(); if conn is None: return False.
MarkConnect(p) ==
    /\ pc[p] = "mark_connect"
    /\ \/ MarkReturn(p, "False")
       \/ /\ pc' = [pc EXCEPT ![p] = "mark_select"]
          /\ UNCHANGED result
    /\ UNCHANGED <<db, args, snap, holding_exists, wrote, ncalls, failed, op,
                   valuation, session_user, lessons, practice, clock>>

\* SELECT completed FROM learning_progress WHERE ...; existing = fetchone();
\* a lesson found completed returns False at once, a raise returns False.
MarkSelect(p) ==
    /\ pc[p] = "mark_select"
    /\ \/ /\ MarkReturn(p, "False")
          /\ UNCHANGED existing
       \/ LET rows == ProgressRows(UserOf(p), args[p])
              found == IF rows = {} THEN {}
                       ELSE {learning_progress[CHOOSE i \in rows :
                                \A j \in rows : i <= j].completed}
          IN  /\ existing' = [existing EXCEPT ![p] = found]
              /\ IF found = {TRUE}
                 THEN MarkReturn(p, "False")
                 ELSE /\ pc' = [pc EXCEPT ![p] = "mark_write"]
                      /\ UNCHANGED result
    /\ UNCHANGED <<db, args, snap, holding_exists, wrote, ncalls, failed, op,
                   valuation, session_user, learning_progress, practice, clock>>

\* The UPDATE of a row found not completed, or the INSERT of a completed row;
\* then conn.commit(), which autocommit leaves nothing to do, and return True.
\* A statement that raises is answered by conn.rollback() and return False.
MarkWrite(p) ==
    /\ pc[p] = "mark_write"
    /\ \/ /\ MarkReturn(p, "False")
          /\ UNCHANGED <<learning_progress, wrote>>
       \/ /\ existing[p] # {}
          /\ learning_progress' =
                [i \in DOMAIN learning_progress |->
                    IF i \in ProgressRows(UserOf(p), args[p])
                    THEN [learning_progress[i] EXCEPT !.completed = TRUE]
                    ELSE learning_progress[i]]
          /\ wrote' = [wrote EXCEPT ![p] = 1]
          /\ MarkReturn(p, "True")
       \/ /\ existing[p] = {}
          /\ ~UniqueViolation(UserOf(p), args[p])
          /\ learning_progress' =
                Append(learning_progress, ProgressRow(UserOf(p), args[p]))
          /\ wrote' = [wrote EXCEPT ![p] = 1]
          /\ MarkReturn(p, "True")
    /\ UNCHANGED <<db, args, snap, holding_exists, ncalls, failed, op,
                   valuation, session_user, existing, practice, clock>>

\* Two sessions of the account mark lessons side by side, statement by
\* statement.
StepLessons(p) ==
    \/ MarkLessonComplete(p)
    \/ MarkConnect(p)
    \/ MarkSelect(p)
    \/ MarkWrite(p)

NextLessons == \E p \in Procs : StepLessons(p)

SpecLessons == Init /\ [][NextLessons]_vars

\* ------------------------------------------------------------ practice mode
\* The last minute of the trading day, and the bars generated for a day.
LastMinute == 389
Minutes == 390

\* Trades one practice session records.
MaxTrades == 3

\* Closing prices the generated bars may show, in cents.
PracticePrices == {100, 200}

\* max_shares = min(int(cash // current_price), 50).
MaxShares(price) ==
    LET afford == random_portfolio.cash \div price
    IN  IF afford < 50 THEN afford ELSE 50

\* The buy_price a buy stores: the price of the first transaction on the list,
\* else cost and shares of every transaction on the list plus this one.
BuyPrice(n, price) ==
    LET bought == random_portfolio.buy_transactions
    IN  IF Len(bought) = 0
        THEN Quotient(price, 1)
        ELSE Quotient(
                SumSeq([i \in DOMAIN bought |-> bought[i].shares * bought[i].price]) + n * price,
                SumSeq([i \in DOMAIN bought |-> bought[i].shares]) + n)

\* The page is past its initialisation and shows minute_data.
Trading == trading_data

\* Buy 5 / Buy 10 / Buy 25 / Buy n Shares at the bar's close.
PracticeBuy(n, price) ==
    /\ Trading
    /\ Len(trade_history) < MaxTrades
    /\ n \in 1..MaxShares(price)
    /\ random_portfolio' =
          [cash |-> random_portfolio.cash - n * price,
           shares |-> random_portfolio.shares + n,
           buy_price |-> BuyPrice(n, price),
           buy_transactions |->
               Append(random_portfolio.buy_transactions,
                      [shares |-> n, price |-> price, total |-> n * price])]
    /\ trade_history' = Append(trade_history,
          [type |-> "BUY", price |-> price, shares |-> n, total |-> n * price])
    /\ UNCHANGED <<ledger, lessons, clock>>

\* Sell 25% / Sell 50% / Sell n Shares: cash and shares move, buy_price and
\* buy_transactions stay.
PracticeSell(n, price) ==
    /\ Trading
    /\ Len(trade_history) < MaxTrades
    /\ n \in 1..random_portfolio.shares
    /\ random_portfolio' =
          [random_portfolio EXCEPT !.cash = @ + n * price, !.shares = @ - n]
    /\ trade_history' = Append(trade_history,
          [type |-> "PARTIAL_SELL", price |-> price, shares |-> n, total |-> n * price])
    /\ UNCHANGED <<ledger, lessons, clock>>

\* The position after every share is sold at the price.
SoldAll(price) ==
    [cash |-> random_portfolio.cash + random_portfolio.shares * price,
     shares |-> 0, buy_price |-> Quotient(0, 1), buy_transactions |-> <<>>]

\* Sell All.
SellAll(price) ==
    /\ Trading
    /\ Len(trade_history) < MaxTrades
    /\ random_portfolio.shares > 0
    /\ random_portfolio' = SoldAll(price)
    /\ trade_history' = Append(trade_history,
          [type |-> "FULL_SELL", price |-> price,
           shares |-> random_portfolio.shares,
           total |-> random_portfolio.shares * price])
    /\ UNCHANGED <<ledger, lessons, clock>>

\* Reset Portfolio.
ResetPortfolio ==
    /\ Trading
    /\ random_portfolio' = NewRandomPortfolio
    /\ UNCHANGED <<ledger, lessons, trade_history, clock>>

\* if st.session_state.trading_data is None: a day's bars are generated and
\* the clock starts at minute 0.
InitializeTrading ==
    /\ ~trading_data
    /\ trading_data' = TRUE
    /\ current_minute' = 0
    /\ day_complete' = FALSE
    /\ UNCHANGED <<ledger, lessons, practice, auto_advance>>

\* The auto-advance timer at the top of the page, five seconds after the last
\* update.
AutoAdvance ==
    /\ ~day_complete
    /\ auto_advance
    /\ IF current_minute < 389
       THEN /\ current_minute' = current_minute + 1
            /\ UNCHANGED <<day_complete, auto_advance>>
       ELSE /\ day_complete' = TRUE
            /\ auto_advance' = FALSE
            /\ UNCHANGED current_minute
    /\ UNCHANGED <<ledger, lessons, practice, trading_data>>

\* The time controls are shown.
TimeControls == Trading /\ ~day_complete

\* Start Auto.
StartAuto ==
    /\ TimeControls
    /\ ~auto_advance
    /\ auto_advance' = TRUE
    /\ UNCHANGED <<ledger, lessons, practice, current_minute, day_complete, trading_data>>

\* Pause Auto.
PauseAuto ==
    /\ TimeControls
    /\ auto_advance
    /\ auto_advance' = FALSE
    /\ UNCHANGED <<ledger, lessons, practice, current_minute, day_complete, trading_data>>

\* The buttons +1 Min, +5 Min, +15 Min, +30 Min, +60 Min.
Jumps == {1, 5, 15, 30, 60}

\* A jump that never ends the day.
AdvanceAlways(n) == Minutes

\* if st.session_state.current_minute < 389 / 385 / 375 / 360 / 330.
AdvanceLimit(n) ==
    CASE n = 1 -> 389
      [] n = 5 -> 385
      [] n = 15 -> 375
      [] n = 30 -> 360
      [] n = 60 -> 330

\* +n Min: below the limit the clock moves on n minutes and auto-advance
\* stops; else the day is complete, at minute 389 (+1 Min leaves the minute).
Advance(n) ==
    /\ TimeControls
    /\ IF current_minute < AdvanceLimit(n)
       THEN /\ current_minute' = current_minute + n
            /\ auto_advance' = FALSE
            /\ UNCHANGED day_complete
       ELSE /\ current_minute' = IF n = 1 THEN current_minute ELSE 389
            /\ day_complete' = TRUE
            /\ UNCHANGED auto_advance
    /\ UNCHANGED <<ledger, lessons, practice, trading_data>>

\* To End.
ToEnd ==
    /\ TimeControls
    /\ current_minute' = 389
    /\ day_complete' = TRUE
    /\ auto_advance' = FALSE
    /\ UNCHANGED <<ledger, lessons, practice, trading_data>>

\* Reset Day.
ResetDay ==
    /\ TimeControls
    /\ current_minute' = 0
    /\ auto_advance' = FALSE
    /\ UNCHANGED <<ledger, lessons, practice, day_complete, trading_data>>

\* What every way of starting a new trade does to the day: trading_data = None,
\* current_minute = 0, day_complete = False, auto_advance = False.
NewTrade ==
    /\ trading_data' = FALSE
    /\ current_minute' = 0
    /\ day_complete' = FALSE
    /\ auto_advance' = FALSE

\* Start New Trade with no shares held.
StartNewTrade ==
    /\ Trading
    /\ random_portfolio.shares = 0
    /\ NewTrade
    /\ UNCHANGED <<ledger, lessons, practice>>

\* Start New Trade with shares held, then Keep & Start New.
KeepAndStartNew ==
    /\ Trading
    /\ random_portfolio.shares > 0
    /\ NewTrade
    /\ UNCHANGED <<ledger, lessons, practice>>

\* Start New Trade with shares held, then Confirm Sell & Start.
ConfirmSellAndStart(price) ==
    /\ Trading
    /\ Len(trade_history) < MaxTrades
    /\ random_portfolio.shares > 0
    /\ random_portfolio' = SoldAll(price)
    /\ trade_history' = Append(trade_history,
          [type |-> "NEW_TRADE_SELL", price |-> price,
           shares |-> random_portfolio.shares,
           total |-> random_portfolio.shares * price])
    /\ NewTrade
    /\ UNCHANGED <<ledger, lessons>>

\* The close of the bar the clock spec trades at, in cents.
ClosePrice == 100

\* One practice session: the clock, and one-share trades at the bar's close.
NextClock ==
    \/ InitializeTrading
    \/ AutoAdvance
    \/ StartAuto
    \/ PauseAuto
    \/ \E n \in Jumps : Advance(n)
    \/ ToEnd
    \/ ResetDay
    \/ StartNewTrade
    \/ KeepAndStartNew
    \/ ConfirmSellAndStart(ClosePrice)
    \/ ResetPortfolio
    \/ PracticeBuy(1, ClosePrice)
    \/ PracticeSell(1, ClosePrice)
    \/ SellAll(ClosePrice)

SpecClock == Init /\ [][NextClock]_vars

\* Buys and sells of one symbol, asked of the ledger and of the practice page.
PracticeRequests ==
    {Request(a, "AAA", n, pr) : a \in {"buy", "sell"}, n \in {1, 2}, pr \in PracticePrices}

\* The practice page has made every trade the ledger has recorded.
Mirrored == Len(trade_history) = Len(orders)

\* The ledger's trade the practice page has not made yet.
Pending == orders[Len(trade_history) + 1]

\* The practice page buys what the ledger has just bought.
MirrorBuy ==
    /\ ~Mirrored
    /\ Pending.action = "buy"
    /\ PracticeBuy(Pending.shares, Pending.price)

\* The practice page sells what the ledger has just sold, with Sell n Shares.
MirrorSell ==
    /\ ~Mirrored
    /\ Pending.action = "sell"
    /\ PracticeSell(Pending.shares, Pending.price)

\* The practice page sells what the ledger has just sold, every share it
\* holds, with Sell All.
MirrorSellAll ==
    /\ ~Mirrored
    /\ Pending.action = "sell"
    /\ Pending.shares = random_portfolio.shares
    /\ SellAll(Pending.price)

\* One session trades through update_portfolio_db, one call after the other,
\* and makes each recorded trade on the practice page as well.
NextPractice ==
    \/ InitializeTrading
    \/ Mirrored /\ Call(1, PracticeRequests)
    \/ LoadConnect(1)
    \/ LoadSelectPortfolio(1)
    \/ LoadSelectHoldings(1)
    \/ LoadSelectOrders(1)
    \/ LoadInsertPortfolio(1)
    \/ Dispatch(1)
    \/ BuyUpdateCash(1)
    \/ BuySelectHolding(1)
    \/ BuyWriteHolding(1)
    \/ BuyInsertOrder(1)
    \/ SellUpdateCash(1)
    \/ SellWriteHolding(1)
    \/ SellInsertOrder(1)
    \/ MirrorBuy
    \/ MirrorSell
    \/ MirrorSellAll

SpecPractice == Init /\ [][NextPractice]_vars

\* ------------------------------------------------------------------ claims
\* The portfolio rows of an account.
UserRows(user) == {i \in DOMAIN portfolios : portfolios[i].user_id = user}

\* Shares of a symbol stored for a portfolio, over all its rows.
StoredShares(pid, symbol) ==
    SumSeq([i \in DOMAIN holdings |->
        IF holdings[i].portfolio_id = pid /\ holdings[i].symbol = symbol
        THEN holdings[i].shares ELSE 0])

\* Sum of the total column of a portfolio's orders with the given action.
OrderTotals(pid, action) ==
    SumSeq([i \in DOMAIN orders |->
        IF orders[i].portfolio_id = pid /\ orders[i].action = action
        THEN orders[i].total ELSE 0])

\* Sum of total_invested over a portfolio's holdings.
TotalInvested(pid) ==
    SumSeq([i \in DOMAIN holdings |->
        IF holdings[i].portfolio_id = pid THEN holdings[i].total_invested ELSE 0])

Succeeded(p) == result[p] \in {"Buy order executed", "Sell order executed"}

\* C1: the stored cash of every portfolio is >= 0 in every state.
NoNegativeCash == \A i \in DOMAIN portfolios : portfolios[i].cash >= 0

\* C2: a call that has returned made all three of its writes and reports
\* success, or made none of them.
TradeIsAtomic ==
    \A p \in Procs :
        pc[p] = "done" => IF Succeeded(p) THEN wrote[p] = 3 ELSE wrote[p] = 0

\* update_portfolio_db could not use the database and says so.
Unavailable(p) ==
    result[p] \in {"Database connection failed", "Transaction failed", "raised"}

\* C3: two buys of one share at half the starting cash, run side by side on a
\* fresh portfolio with the database available, both succeed and leave no
\* cash and two shares.
ConcurrentBuysSpendAll ==
    (/\ ncalls = 2
     /\ \A p \in Procs :
          /\ pc[p] = "done"
          /\ args[p] = Request("buy", "AAA", 1, HalfCash)
          /\ ~Unavailable(p)
     /\ Cardinality(UserRows(1)) = 1)
    => /\ \A p \in Procs : result[p] = "Buy order executed"
       /\ \A i \in UserRows(1) :
            portfolios[i].cash = 0 /\ StoredShares(i, "AAA") = 2

\* The step in which session p makes the cash UPDATE of its trade.
WritesCash(p) ==
    /\ pc[p] \in {"buy_cash", "sell_cash"}
    /\ pc'[p] \in {"buy_select", "sell_holding"}
    /\ PortfolioExists(snap[p].portfolio_id)

\* C4: no trade computes its new cash from a cash that another trade has
\* since overwritten: the cash a trade replaces is the cash it read.
NoLostUpdate ==
    [][\A p \in Procs :
         WritesCash(p) => portfolios[snap[p].portfolio_id].cash = snap[p].cash]_vars

\* No call is in flight and every call so far returned success.
AllSucceeded == pc[1] \in {"idle", "done"} /\ ~failed

\* C5 as stated: final cash plus the total_invested of the holdings equals the
\* initial cash minus the buy totals plus the sell totals, within one cent.
Conservation ==
    AllSucceeded =>
        \A i \in UserRows(1) :
            Abs((portfolios[i].cash + TotalInvested(i))
                - (DefaultCash - OrderTotals(i, "buy") + OrderTotals(i, "sell"))) <= 1

\* C5 amended: final cash alone equals the initial cash minus the buy totals
\* plus the sell totals, to the cent.
CashConservation ==
    AllSucceeded =>
        \A i \in UserRows(1) :
            portfolios[i].cash
                = DefaultCash - OrderTotals(i, "buy") + OrderTotals(i, "sell")

\* C5 witness: buys and a sell have succeeded and a holding is still open.
CashConservationWitness ==
    /\ AllSucceeded
    /\ \E i \in UserRows(1) :
         /\ OrderTotals(i, "buy") > 0
         /\ OrderTotals(i, "sell") > 0
         /\ TotalInvested(i) > 0

\* C6: a sell of a held symbol never executes for more shares than are held
\* when it writes.
NoOversell ==
    [][\A p \in Procs :
         (WritesCash(p) /\ args[p].action = "sell"
            /\ HoldingRows(snap[p].portfolio_id, args[p].symbol) # {})
         => args[p].shares <= StoredShares(snap[p].portfolio_id, args[p].symbol)]_vars

\* C7: a buy never executes when its cost exceeds the cash stored when it
\* writes.
BuyWithinCash ==
    [][\A p \in Procs :
         (WritesCash(p) /\ args[p].action = "buy")
         => Total(p) <= portfolios[snap[p].portfolio_id].cash]_vars

\* C8: a sell never executes for a symbol the portfolio has no holding of
\* when it writes.
NoSellWithoutPosition ==
    [][\A p \in Procs :
         (WritesCash(p) /\ args[p].action = "sell")
         => HoldingRows(snap[p].portfolio_id, args[p].symbol) # {}]_vars

\* C9: a call with shares <= 0 or price <= 0 is rejected and changes nothing.
InvalidInputRejected ==
    \A p \in Procs :
        (pc[p] = "done" /\ (args[p].shares <= 0 \/ args[p].price <= 0))
        => ~Succeeded(p) /\ wrote[p] = 0

\* C10: every call hands its caller a (success, message) value: it neither
\* raises nor returns nothing.
AlwaysReturnsResult ==
    \A p \in Procs : pc[p] = "done" => result[p] \notin {"None", "raised"}

\* get_user_portfolio could not use the database: the dict it built is the
\* default one, whose portfolio_id 0 is the id of no portfolios row.
StorageFailed(p) == snap[p].portfolio_id = 0

\* C11: a get_user_portfolio that could not use the database does not hand
\* its caller a portfolio.
LoadReportsFailure ==
    \A p \in Procs :
        (pc[p] = "done" /\ op[p] = "get_user_portfolio" /\ StorageFailed(p))
        => result[p] # "portfolio"

\* The only calls made so far are one get_user_portfolio by each session, one
\* after the other, and both have returned.
TwoLoads ==
    /\ ncalls = 2
    /\ \A p \in Procs : pc[p] = "done" /\ op[p] = "get_user_portfolio"

\* C12: two loads in a row of an account that has not traded both return
\* cash 100000.00, no holdings and no orders; the account has no second
\* portfolio row, and two loads that read the store return the same
\* portfolio_id, that of its one row.
LoadIsIdempotent ==
    TwoLoads =>
        /\ \A p \in Procs :
              /\ snap[p].cash = DefaultCash
              /\ snap[p].holdings = {}
              /\ snap[p].orders = <<>>
        /\ Cardinality(UserRows(1)) <= 1
        /\ (\A p \in Procs : ~StorageFailed(p))
              => /\ snap[1] = snap[2]
                 /\ UserRows(1) = {snap[1].portfolio_id}

\* C12 witness: both loads read the store and returned the account's row.
LoadIsIdempotentWitness ==
    /\ TwoLoads
    /\ \A p \in Procs : ~StorageFailed(p) /\ snap[p].portfolio_id \in UserRows(1)

\* C13: every account has at most one portfolios row.
OnePortfolioPerUser == \A u \in Users : Cardinality(UserRows(u)) <= 1

\* C14: a portfolio has at most one holdings row per symbol.
OneHoldingPerSymbol ==
    \A pid \in DOMAIN portfolios, s \in Symbols :
        Cardinality(HoldingRows(pid, s)) <= 1

\* C15: every holdings row has shares > 0.
PositiveShares == \A i \in DOMAIN holdings : holdings[i].shares > 0

\* The step in which session p makes the holdings write of its sell.
WritesSoldHolding(p) == pc[p] = "sell_holding" /\ pc'[p] = "sell_order"

\* C16: the holdings write of a sell that leaves shares keeps every row of the
\* holding, with the avg_price it had; the write of a sell of all the shares
\* held leaves no row of the holding.
SellLeavesAvgPrice ==
    [][\A p \in Procs :
         WritesSoldHolding(p) =>
            LET pid == snap[p].portfolio_id
                s == args[p].symbol
            IN  IF StoredShares(pid, s) > args[p].shares
                THEN /\ DOMAIN holdings' = DOMAIN holdings
                     /\ \A i \in HoldingRows(pid, s) :
                          /\ holdings'[i].portfolio_id = pid
                          /\ holdings'[i].symbol = s
                          /\ holdings'[i].avg_price = holdings[i].avg_price
                ELSE \A i \in DOMAIN holdings' :
                        ~(holdings'[i].portfolio_id = pid
                          /\ holdings'[i].symbol = s)]_vars

\* C16 witness: a sell of some of the shares held, at a price other than
\* their avg_price, has returned, and the shares left have the avg_price the
\* load read.
SellLeavesAvgPriceWitness ==
    \E p \in Procs :
        /\ pc[p] = "done"
        /\ result[p] = "Sell order executed"
        /\ RemainingShares(p) > 0
        /\ \E i \in HoldingRows(snap[p].portfolio_id, args[p].symbol) :
             /\ holdings[i].shares = RemainingShares(p)
             /\ holdings[i].avg_price = SnapshotHolding(p, args[p].symbol).avg_price
             /\ holdings[i].avg_price # args[p].price

\* The step in which session p makes the UPDATE of a buy into a holding that
\* is there.
BuysMore(p) ==
    pc[p] = "buy_holding" /\ pc'[p] = "buy_order" /\ holding_exists[p]

\* C17 as stated: a buy into an existing holding leaves avg_price unchanged at
\* a price equal to it, strictly greater at a higher price, strictly smaller
\* at a lower price.
AvgMovesStrictly ==
    [][\A p \in Procs :
         BuysMore(p) =>
            \A i \in HoldingRows(snap[p].portfolio_id, args[p].symbol) :
                /\ args[p].price = holdings[i].avg_price
                      => holdings'[i].avg_price = holdings[i].avg_price
                /\ args[p].price > holdings[i].avg_price
                      => holdings'[i].avg_price > holdings[i].avg_price
                /\ args[p].price < holdings[i].avg_price
                      => holdings'[i].avg_price < holdings[i].avg_price]_vars

\* C17 amended: a buy into an existing holding leaves avg_price unchanged at a
\* price equal to it, and otherwise leaves it between the old avg_price and
\* the buy price, both included.
AvgMovesTowardPrice ==
    [][\A p \in Procs :
         BuysMore(p) =>
            \A i \in HoldingRows(snap[p].portfolio_id, args[p].symbol) :
                /\ args[p].price = holdings[i].avg_price
                      => holdings'[i].avg_price = holdings[i].avg_price
                /\ args[p].price > holdings[i].avg_price
                      => /\ holdings'[i].avg_price >= holdings[i].avg_price
                         /\ holdings'[i].avg_price <= args[p].price
                /\ args[p].price < holdings[i].avg_price
                      => /\ holdings'[i].avg_price <= holdings[i].avg_price
                         /\ holdings'[i].avg_price >= args[p].price]_vars

\* C17 witness: a buy at a price above the avg_price of the shares held has
\* returned and the avg_price stored is above the first price paid.
AvgMovesTowardPriceWitness ==
    \E p \in Procs :
        /\ pc[p] = "done"
        /\ result[p] = "Buy order executed"
        /\ InSnapshot(p, args[p].symbol)
        /\ args[p].price > SnapshotHolding(p, args[p].symbol).avg_price
        /\ \E i \in HoldingRows(snap[p].portfolio_id, args[p].symbol) :
             holdings[i].avg_price > SnapshotHolding(p, args[p].symbol).avg_price

\* Session p is inside a valuation and takes a step of it.
ValuationStep(p) ==
    /\ op[p] \in {"calculate_portfolio_value", "get_total_value"}
    /\ pc[p] \notin {"idle", "done"}
    /\ pc'[p] # pc[p]

\* C18: no step of a valuation changes a field of a stored portfolio, holding
\* or order.
ValuationChangesNothing ==
    [][\A p \in Procs :
         ValuationStep(p) =>
            /\ \A i \in DOMAIN portfolios : portfolios'[i] = portfolios[i]
            /\ holdings' = holdings
            /\ orders' = orders]_vars

\* Session p has made a valuation and it has returned.
Valued(p) ==
    pc[p] = "done" /\ op[p] \in {"calculate_portfolio_value", "get_total_value"}

\* The stored cash of a portfolio plus, for each of its holdings rows, shares
\* times the quote of its symbol, or times its avg_price where quotes has none.
StoredValue(pid, quotes) ==
    portfolios[pid].cash
        + SumSeq([i \in DOMAIN holdings |->
            IF holdings[i].portfolio_id = pid
            THEN holdings[i].shares
                   * (IF quotes[holdings[i].symbol] = {}
                      THEN holdings[i].avg_price
                      ELSE CHOOSE x \in quotes[holdings[i].symbol] : TRUE)
            ELSE 0])

\* C19: a valuation always returns a total, whatever the lookups did; one
\* that read the portfolio returns, of the ledger as stored when it returns,
\* cash plus shares times the quote for every holding with a quote and shares
\* times avg_price for every other.
ValuationUsesFallback ==
    [][\A p \in Procs :
         (ValuationStep(p) /\ pc'[p] = "done") =>
            /\ result'[p] = "total_value"
            /\ ~StorageFailed(p) =>
                  /\ DOMAIN valuation'[p].quotes
                        = {s \in Symbols : HoldingRows(snap[p].portfolio_id, s) # {}}
                  /\ valuation'[p].total
                        = StoredValue(snap[p].portfolio_id, valuation'[p].quotes)]_vars

\* C19 witness: a valuation of two holdings has returned, with a quote above
\* avg_price for the one and no quote for the other.
ValuationUsesFallbackWitness ==
    \E p \in Procs :
        /\ Valued(p)
        /\ ~StorageFailed(p)
        /\ DOMAIN valuation[p].quotes = Symbols
        /\ valuation[p].quotes["AAA"] = {}
        /\ valuation[p].quotes["BBB"] = {HalfCash + 1}
        /\ valuation[p].total = DefaultCash + 1

\* The step in which session p's update_portfolio_db returns.
TradeReturns(p) ==
    /\ op[p] = "update_portfolio_db"
    /\ pc[p] \notin {"idle", "done"}
    /\ pc'[p] = "done"

\* The step leaves every order as it was and adds one order after them, that
\* of session p's trade.
AppendsOrderOf(p) ==
    /\ Len(orders') = Len(orders) + 1
    /\ SubSeq(orders', 1, Len(orders)) = orders
    /\ LET o == orders'[Len(orders')]
       IN  /\ o.portfolio_id = snap[p].portfolio_id
           /\ o.symbol = args[p].symbol
           /\ o.action = args[p].action
           /\ o.shares = args[p].shares
           /\ o.price = args[p].price
           /\ o.total = args[p].shares * args[p].price
           /\ args[p].action = "buy" => o.profit_loss = {}

\* C20: a trade that returns success appends exactly one order, with its
\* symbol, action, shares, price and total = shares * price, and a NULL
\* profit_loss for a buy; a trade that returns anything else appends none; no
\* other step changes the orders table.
OrdersAppendOnly ==
    [][/\ \A p \in Procs :
            TradeReturns(p) =>
                IF result'[p] \in {"Buy order executed", "Sell order executed"}
                THEN AppendsOrderOf(p)
                ELSE orders' = orders
       /\ orders' # orders =>
            \E p \in Procs :
                /\ TradeReturns(p)
                /\ result'[p] \in {"Buy order executed", "Sell order executed"}]_vars

\* C20 witness: a buy and then a sell have succeeded and the orders table
\* holds the buy's order, with no profit_loss, before the sell's.
OrdersAppendOnlyWitness ==
    /\ Len(orders) = 2
    /\ orders[1].action = "buy" /\ orders[1].profit_loss = {}
    /\ orders[1].total = orders[1].shares * orders[1].price
    /\ orders[2].action = "sell"
    /\ \E p \in Procs : pc[p] = "done" /\ result[p] = "Sell order executed"

\* The portfolios rows of the accounts other than session p's.
OtherRows(p) == {i \in DOMAIN portfolios : portfolios[i].user_id # UserOf(p)}

\* C21: a step of a session, in a trade, a load or a valuation, leaves every
\* portfolios row of another account and every holding and order of such a
\* row as they were.
UserIsolation ==
    [][\A p \in Procs :
         pc'[p] # pc[p] =>
            /\ \A i \in OtherRows(p) :
                  i \in DOMAIN portfolios' /\ portfolios'[i] = portfolios[i]
            /\ SelectSeq(holdings', LAMBDA row : row.portfolio_id \in OtherRows(p))
                  = SelectSeq(holdings, LAMBDA row : row.portfolio_id \in OtherRows(p))
            /\ SelectSeq(orders', LAMBDA row : row.portfolio_id \in OtherRows(p))
                  = SelectSeq(orders, LAMBDA row : row.portfolio_id \in OtherRows(p))]_vars

\* C21 witness: both accounts have traded: each has an order, one holds a
\* share and the other has sold its share again.
UserIsolationWitness ==
    \E i \in UserRows(1), j \in UserRows(2) :
        /\ OrderTotals(i, "buy") > 0
        /\ OrderTotals(j, "sell") > 0
        /\ StoredShares(i, "AAA") = 1
        /\ portfolios[i].cash = HalfCash
        /\ portfolios[j].cash = DefaultCash + 1

\* The step in which session p makes the cash UPDATE of a buy of a symbol its
\* portfolio holds.
PaysForMore(p) ==
    /\ WritesCash(p)
    /\ args[p].action = "buy"
    /\ InSnapshot(p, args[p].symbol)

\* C22 as stated: a buy into an existing holding takes shares * price off the
\* cash and leaves shares = old shares + n, total_invested = old
\* total_invested + n * price and avg_price equal to that total over those
\* shares.
BuyIntoHoldingExact ==
    [][\A p \in Procs :
         /\ PaysForMore(p) =>
               portfolios'[snap[p].portfolio_id].cash
                  = portfolios[snap[p].portfolio_id].cash - args[p].shares * args[p].price
         /\ BuysMore(p) =>
               \A i \in HoldingRows(snap[p].portfolio_id, args[p].symbol) :
                  LET n == holdings[i].shares + args[p].shares
                      t == holdings[i].total_invested + args[p].shares * args[p].price
                  IN  /\ holdings'[i].shares = n
                      /\ holdings'[i].total_invested = t
                      /\ holdings'[i].avg_price * n = t]_vars

\* C22 amended: the same, with avg_price equal to that total over those
\* shares rounded to the cent: within half a cent of the quotient.
BuyIntoHolding ==
    [][\A p \in Procs :
         /\ PaysForMore(p) =>
               portfolios'[snap[p].portfolio_id].cash
                  = portfolios[snap[p].portfolio_id].cash - args[p].shares * args[p].price
         /\ BuysMore(p) =>
               \A i \in HoldingRows(snap[p].portfolio_id, args[p].symbol) :
                  LET n == holdings[i].shares + args[p].shares
                      t == holdings[i].total_invested + args[p].shares * args[p].price
                  IN  /\ holdings'[i].shares = n
                      /\ holdings'[i].total_invested = t
                      /\ 2 * Abs(holdings'[i].avg_price * n - t) <= n]_vars

\* C22 witness: a buy into a holding, at a price other than its avg_price,
\* has returned; the row has the shares and the money of both buys.
BuyIntoHoldingWitness ==
    \E p \in Procs :
        /\ pc[p] = "done"
        /\ result[p] = "Buy order executed"
        /\ InSnapshot(p, args[p].symbol)
        /\ args[p].price # SnapshotHolding(p, args[p].symbol).avg_price
        /\ \E i \in HoldingRows(snap[p].portfolio_id, args[p].symbol) :
             /\ holdings[i].shares
                   = SnapshotHolding(p, args[p].symbol).shares + args[p].shares
             /\ holdings[i].total_invested
                   = SnapshotHolding(p, args[p].symbol).total_invested + Total(p)
             /\ holdings[i].avg_price * holdings[i].shares # holdings[i].total_invested

\* The step in which session p makes the INSERT of a buy of a symbol that has
\* no holdings row.
BuysNew(p) ==
    pc[p] = "buy_holding" /\ pc'[p] = "buy_order" /\ ~holding_exists[p]

\* C23: a buy of a symbol without a holding adds one row to those stored,
\* with shares = n, avg_price = price and total_invested = n * price, and it
\* is then the only row of that symbol.
FreshAverage ==
    [][\A p \in Procs :
         BuysNew(p) =>
            /\ Len(holdings') = Len(holdings) + 1
            /\ SubSeq(holdings', 1, Len(holdings)) = holdings
            /\ LET h == holdings'[Len(holdings')]
               IN  /\ h.portfolio_id = snap[p].portfolio_id
                   /\ h.symbol = args[p].symbol
                   /\ h.shares = args[p].shares
                   /\ h.avg_price = args[p].price
                   /\ h.total_invested = args[p].shares * args[p].price
            /\ HoldingRows(snap[p].portfolio_id, args[p].symbol) = {}]_vars

\* C23 witness: the symbol was bought at one price and sold, and a buy of two
\* shares at another price has returned: the holding has that price.
FreshAverageWitness ==
    \E p \in Procs :
        /\ pc[p] = "done"
        /\ result[p] = "Buy order executed"
        /\ args[p].shares = 2
        /\ Len(orders) = 3
        /\ orders[1].action = "buy" /\ orders[1].price # args[p].price
        /\ orders[2].action = "sell"
        /\ \A i \in DOMAIN orders : orders[i].symbol = args[p].symbol
        /\ \E i \in HoldingRows(snap[p].portfolio_id, args[p].symbol) :
             /\ holdings[i].shares = 2
             /\ holdings[i].avg_price = args[p].price
             /\ holdings[i].total_invested = 2 * args[p].price

\* C24: a sell of n of the h shares stored at avg_price a adds n * price to
\* the stored cash, leaves h - n shares with total_invested = (h - n) * a (no
\* row when h = n), and its order carries profit_loss = (price - a) * n.
SellOutcome ==
    [][\A p \in Procs :
         LET pid == snap[p].portfolio_id
             s == args[p].symbol
             n == args[p].shares
         IN
         /\ (WritesCash(p) /\ args[p].action = "sell") =>
               portfolios'[pid].cash = portfolios[pid].cash + n * args[p].price
         /\ WritesSoldHolding(p) =>
               /\ HoldingRows(pid, s) # {}
               /\ \A i \in HoldingRows(pid, s) :
                     /\ holdings[i].avg_price = SnapshotHolding(p, s).avg_price
                     /\ IF holdings[i].shares = n
                        THEN Len(holdings') = Len(holdings) - 1
                        ELSE /\ holdings'[i].shares = holdings[i].shares - n
                             /\ holdings'[i].total_invested
                                   = (holdings[i].shares - n) * holdings[i].avg_price
         /\ (TradeReturns(p) /\ result'[p] = "Sell order executed") =>
               orders'[Len(orders')].profit_loss
                  = {(args[p].price - SnapshotHolding(p, s).avg_price) * n}]_vars

\* C24 witness: a sell of one of two shares, above their avg_price, has
\* returned with a profit on its order and one share left.
SellOutcomeWitness ==
    \E p \in Procs :
        /\ pc[p] = "done"
        /\ result[p] = "Sell order executed"
        /\ args[p].shares = 1
        /\ SnapshotHolding(p, args[p].symbol).shares = 2
        /\ orders[Len(orders)].profit_loss = {1}
        /\ \E i \in HoldingRows(snap[p].portfolio_id, args[p].symbol) :
             /\ holdings[i].shares = 1
             /\ holdings[i].total_invested = holdings[i].avg_price

\* C25: every holdings row has total_invested equal to shares * avg_price, to
\* the cent.
TotalInvestedConsistent ==
    \A i \in DOMAIN holdings :
        Abs(holdings[i].total_invested - holdings[i].shares * holdings[i].avg_price) <= 1

\* C26: a trade whose load fell back to the default snapshot is neither
\* accepted nor rejected on that snapshot: it reports that the database could
\* not be used, and has written nothing.
DefaultSnapshotDecidesNothing ==
    \A p \in Procs :
        (/\ pc[p] = "done"
         /\ op[p] = "update_portfolio_db"
         /\ args[p].action \in {"buy", "sell"}
         /\ StorageFailed(p))
        => (Unavailable(p) /\ wrote[p] = 0)

\* C27: in every orders list a load has built, each sell order carries a
\* profit_loss and each buy order carries none.
LoadedSellsHaveProfitLoss ==
    \A p \in Procs :
        \A i \in DOMAIN snap[p].orders :
            (snap[p].orders[i].profit_loss = {}) <=> (snap[p].orders[i].action = "buy")

\* The session's mark_lesson_complete returns in this step.
MarkReturns(p) ==
    /\ op[p] = "mark_lesson_complete"
    /\ pc[p] # "done"
    /\ pc'[p] = "done"

\* The lesson has a row that says completed.
Completed(user, lesson) ==
    \E i \in ProgressRows(user, lesson) : learning_progress[i].completed

\* C30: a lesson never has two progress rows; a mark_lesson_complete that
\* returns True is the one that turned the lesson from not completed to
\* completed, and one that returns False has left the table as it was.
MarkedOnce ==
    /\ [](\A u \in Users, l \in Lessons : Cardinality(ProgressRows(u, l)) <= 1)
    /\ [][\A p \in Procs :
            MarkReturns(p) =>
                IF result'[p] = "True"
                THEN /\ ~Completed(UserOf(p), args[p])
                     /\ Completed(UserOf(p), args[p])'
                ELSE learning_progress' = learning_progress]_vars

\* Two calls for one lesson both found no row: one has inserted the row and
\* returned True, the other is about to run its INSERT.
MarkedOnceWitness ==
    /\ \A p \in Procs : op[p] = "mark_lesson_complete" /\ existing[p] = {}
    /\ args[1] = args[2]
    /\ pc[1] = "done"
    /\ result[1] = "True"
    /\ pc[2] = "mark_write"
    /\ Len(learning_progress) = 1

\* C29: current_minute is always one of the minutes 0..389 of the generated
\* bars, and once the day is complete it moves only when a new trade is
\* started.
ClockInRange ==
    /\ [](current_minute \in 0..LastMinute /\ current_minute < Minutes)
    /\ [][day_complete => (current_minute' = current_minute \/ ~trading_data')]_vars

\* A time control has ended the day at the last minute.
ClockInRangeWitness ==
    /\ trading_data
    /\ day_complete
    /\ current_minute = LastMinute

\* C28: after the same buys and sells of one symbol, all of them successful,
\* the practice page's buy_price is, to the cent, the avg_price of the
\* ledger's holding.
AverageCostAgrees ==
    (pc[1] \in {"idle", "done"} /\ ~failed /\ Mirrored)
    => \A i \in DOMAIN holdings :
           /\ random_portfolio.shares = holdings[i].shares
           /\ RoundDiv(random_portfolio.buy_price.num, random_portfolio.buy_price.den)
                = holdings[i].avg_price

====
